---- MODULE Spec2Model ----
(***************************************************************************)
(* Model of the course / progress / certificate HTTP server and of the     *)
(* course provider of its web client.                                      *)
(*                                                                         *)
(* The server keeps one in-memory document db = {courses, progress,        *)
(* certificates} and rewrites a JSON file from it in saveDb.  Every        *)
(* handler runs to completion once its body has been parsed (the only      *)
(* await of a handler is parseBody, before any access to db), so one       *)
(* action of the model is one whole request.                               *)
(*                                                                         *)
(* Identifiers are modelled as integers.  randomUUID never returns a value *)
(* it returned before, nor a string a client made up: the n-th course      *)
(* created gets n, the n-th certificate issued gets CertIdBase + n,        *)
(* CustomId (0) is a string chosen by a client that is no UUID, and        *)
(* Absent (-1) stands for a missing / undefined field.                     *)
(***************************************************************************)
EXTENDS Integers, Sequences, FiniteSets, TLC

VARIABLES
    courses,       \* db.courses
    progress,      \* db.progress
    certificates,  \* db.certificates
    disk,          \* the document saveDb wrote last (data.json)
    now,           \* the clock new Date() reads
    req,           \* the request handled last: operation, x-role, path ids, body userId
    resp,          \* the response sent last
    lastLen,       \* history: per progress record, the length of the lesson list
                   \* at its last 200 response (Absent before the first)
    submitted,     \* history: per progress record, the lesson identifiers named by
                   \* the requests for its pair that carried a userId and found
                   \* the course
    scope,         \* name of the scope of the behaviour (see Scope)
    clientCourses, \* CourseProvider: the courses state of useState
    calls          \* CourseProvider: the updateLessonProgress calls made so far, each
                   \* waiting for the server, waiting for its response, or resolved

vars == <<courses, progress, certificates, disk, now, req, resp, lastLen, submitted, scope,
          clientCourses, calls>>


(* ------------------------------ bounds --------------------------------- *)
\* caps on the sizes of db.courses, db.progress and db.certificates, one
\* triple per specification
ProgressMaxCourses == 1
ProgressMaxRecords == 1
ProgressMaxCerts == 1
CatalogMaxCourses == 2
CatalogMaxRecords == 1
CatalogMaxCerts == 1
CertMaxCourses == 1
CertMaxRecords == 2
CertMaxCerts == 2
\* cap on the number of updateLessonProgress calls of a behaviour
ClientMaxCalls == 3

(* ------------------------------ values --------------------------------- *)
Absent == -1
CustomId == 0

NoUser == ""
NoLesson == ""


(* JavaScript numbers a percentage can be: a finite integer, Infinity, NaN; *)
(* JsonNull is what JSON.stringify writes for the last two.                 *)
Num(n) == [k |-> "num", v |-> n]
Infinity == [k |-> "inf", v |-> 0]
NaN == [k |-> "nan", v |-> 0]
JsonNull == [k |-> "null", v |-> 0]

(* Values of a course's lessons field: an array of lessons (modelled by the *)
(* lessons' ids), null (reading .length throws), or no field at all in a    *)
(* partial update.                                                          *)
Arr(s) == [k |-> "array", v |-> s]
NullLessons == [k |-> "null", v |-> <<>>]
NoLessonsField == [k |-> "absent", v |-> <<>>]
NoTitleField == "absent"

SeqSet(s) == {s[i] : i \in 1..Len(s)}

(* --------------------------- request bodies ---------------------------- *)
\* a body parseBody rejects (not JSON): the handler's catch answers 400
Malformed == [malformed |-> TRUE, title |-> NoTitleField, description |-> "", category |-> "",
              lessons |-> NoLessonsField, id |-> Absent, userId |-> NoUser, score |-> Absent]

CourseBody(title, description, category, lessons, id) ==
    [Malformed EXCEPT !.malformed = FALSE, !.title = title, !.description = description,
                      !.category = category, !.lessons = lessons, !.id = id]

UserBody(userId, score) ==
    [Malformed EXCEPT !.malformed = FALSE, !.userId = userId, !.score = score]

InvalidCourses ==
    {CourseBody("", "d", "c", Arr(<<"L1">>), Absent),
     CourseBody("t1", "", "c", Arr(<<"L1">>), Absent),
     CourseBody("t1", "d", "", Arr(<<"L1">>), Absent),
     CourseBody("t1", "d", "c", NullLessons, Absent),
     CourseBody("t1", "d", "c", NoLessonsField, Absent)}

\* bodies of POST /api/courses: valid courses (one of them with an id field
\* of its own), invalid ones, and a body that is not JSON
CreateBodies(lessonLists) ==
    {CourseBody("t1", "d", "c", l, Absent) : l \in lessonLists}
    \cup {CourseBody("t1", "d", "c", l, 1) : l \in lessonLists}
    \cup InvalidCourses \cup {Malformed}

\* partial updates of PATCH /api/courses/:id (none carries a description or a
\* category: Object.assign leaves those fields alone)
TitleUpdates == {CourseBody("t2", "", "", NoLessonsField, Absent)}
LessonUpdates(lessonValues) == {CourseBody(NoTitleField, "", "", l, Absent) : l \in lessonValues}
IdUpdates(ids) == {CourseBody(NoTitleField, "", "", NoLessonsField, i) : i \in ids}

ProgressBodies(users) == {UserBody(u, Absent) : u \in users \cup {NoUser}} \cup {Malformed}

CertificateBodies(users) == {UserBody(u, 90) : u \in users \cup {NoUser}} \cup {Malformed}

(* ------------------------------ helpers -------------------------------- *)
\* a find whose test assigns instead of comparing: the first course matches
FindCourseAssign(id) == IF Len(courses) > 0 THEN 1 ELSE 0

\* Array.prototype.find: index of the first element satisfying the test, 0 if none
FindCourse(id) ==
    IF \E i \in 1..Len(courses) : courses[i].id = id
    THEN CHOOSE i \in 1..Len(courses) :
            /\ courses[i].id = id
            /\ \A j \in 1..(i - 1) : courses[j].id # id
    ELSE 0

\* a lookup on a field the records do not have: never finds a record
FindRecordNever(userId, courseId) == 0

FindRecord(userId, courseId) ==
    IF \E i \in 1..Len(progress) : progress[i].userId = userId /\ progress[i].courseId = courseId
    THEN CHOOSE i \in 1..Len(progress) :
            /\ progress[i].userId = userId /\ progress[i].courseId = courseId
            /\ \A j \in 1..(i - 1) : ~(progress[j].userId = userId /\ progress[j].courseId = courseId)
    ELSE 0

\* Math.floor in place of Math.round
MathFloor(k, n) ==
    IF n = 0 THEN (IF k = 0 THEN [k |-> "nan", v |-> 0] ELSE [k |-> "inf", v |-> 0])
    ELSE [k |-> "num", v |-> (100 * k) \div n]

\* the quotient taken the wrong way round
MathRoundInverted(k, n) ==
    IF k = 0 THEN (IF n = 0 THEN [k |-> "nan", v |-> 0] ELSE [k |-> "inf", v |-> 0])
    ELSE [k |-> "num", v |-> (200 * n + k) \div (2 * k)]

\* Math.round((k / n) * 100)
\* (round half up; for n <= 4 the floating-point quotient rounds as the exact one)
MathRound(k, n) ==
    IF n = 0 THEN (IF k = 0 THEN NaN ELSE Infinity)
    ELSE Num((200 * k + n) \div (2 * n))

\* JSON.stringify of a number: Infinity and NaN are written as null
JsonNumber(x) == IF x.k = "num" THEN x ELSE JsonNull

\* JSON.stringify(db): the document saveDb writes
Serialize(cs, ps, certs) ==
    [courses |-> cs,
     progress |-> [i \in 1..Len(ps) |-> [ps[i] EXCEPT !.progress = JsonNumber(ps[i].progress)]],
     certificates |-> certs]

\* a test that only asks for the header to be there
requireAdminAnyRole(role) == role # ""

requireAdmin(role) == role = "admin"

\* values of the x-role header: admin, another role, no header
Roles == {"admin", "user", ""}

Request(op, role, courseId, userId) ==
    [op |-> op, role |-> role, courseId |-> courseId, userId |-> userId, lessonId |-> NoLesson]

Response(status, prog, completed, id) ==
    [status |-> status, progress |-> prog, completed |-> completed, id |-> id]

ErrorResponse(status) == Response(status, JsonNull, FALSE, Absent)

\* randomUUID() in the two places that call it
CertIdBase == 100
CourseUUID == Len(courses) + 1
\* an identifier that is not drawn afresh
CertUUIDFixed == CertIdBase + 1
CertUUID == CertIdBase + Len(certificates) + 1

\* course identifiers a client can put in a path: a string of its own, or the
\* identifier of a course created so far
ClientIds == {CustomId} \cup (1..Len(courses))

(* ------------------------------ scopes --------------------------------- *)
\* scope names the scope of a behaviour and never changes: the caps of the
\* collections and the sets the requests draw their inputs from

\* one course with every kind of lesson list, one user working through it
ProgressScope ==
    [maxCourses |-> ProgressMaxCourses, maxRecords |-> ProgressMaxRecords,
     maxCerts |-> ProgressMaxCerts, users |-> {"1"}, lessonIds |-> {"L1", "L2"},
     creates |-> CreateBodies({Arr(<<"L1">>), Arr(<<"L1", "L2">>)}),
     updates |-> TitleUpdates \cup {Malformed}
                 \cup LessonUpdates({Arr(<<>>), Arr(<<"L1">>), Arr(<<"L1", "L2", "L3">>), NullLessons}),
     newIds |-> {CustomId}]

\* several courses whose identifiers and titles are rewritten
CatalogScope ==
    [maxCourses |-> CatalogMaxCourses, maxRecords |-> CatalogMaxRecords,
     maxCerts |-> CatalogMaxCerts, users |-> {"1"}, lessonIds |-> {"L1"},
     creates |-> CreateBodies({Arr(<<"L1">>)}),
     updates |-> TitleUpdates \cup {Malformed},
     newIds |-> {CustomId, 1, 2}]

\* several users, records and certificates of one course
CertScope ==
    [maxCourses |-> CertMaxCourses, maxRecords |-> CertMaxRecords,
     maxCerts |-> CertMaxCerts, users |-> {"1", "2"}, lessonIds |-> {"L1"},
     creates |-> CreateBodies({Arr(<<"L1", "L2">>)}),
     updates |-> TitleUpdates \cup {Malformed} \cup LessonUpdates({NullLessons}),
     newIds |-> {}]

\* the course provider's calls: the course and the user of the progress scope
ClientScope == ProgressScope

Scope ==
    CASE scope = "client" -> ClientScope
      [] scope = "progress" -> ProgressScope
      [] scope = "catalog" -> CatalogScope
      [] scope = "certificates" -> CertScope

(* ------------------------------- Init ---------------------------------- *)
Init ==
    /\ courses = <<>>
    /\ progress = <<>>
    /\ certificates = <<>>
    /\ disk = Serialize(<<>>, <<>>, <<>>)
    /\ now = 0
    /\ req = Request("none", "", Absent, NoUser)
    /\ resp = ErrorResponse(0)
    /\ lastLen = <<>>
    /\ submitted = <<>>
    /\ clientCourses = <<>>
    /\ calls = <<>>
    /\ scope = "progress"

(* ------------------------ POST /api/courses ---------------------------- *)
ValidCourse(course) ==
    /\ course.title # "" /\ course.title # NoTitleField
    /\ course.description # ""
    /\ course.category # ""
    /\ course.lessons.k = "array"

CreateCourse(role, body) ==
    /\ req' = Request("createCourse", role, Absent, NoUser)
    /\ IF ~requireAdmin(role)
       THEN /\ resp' = ErrorResponse(403)
            /\ UNCHANGED <<courses, progress, certificates, disk, now, lastLen, submitted, scope>>
       ELSE IF body.malformed \/ ~ValidCourse(body)
       THEN /\ resp' = ErrorResponse(400)
            /\ UNCHANGED <<courses, progress, certificates, disk, now, lastLen, submitted, scope>>
       ELSE /\ Len(courses) < Scope.maxCourses
            /\ courses' = Append(courses,
                    [id |-> CourseUUID, title |-> body.title, description |-> body.description,
                     category |-> body.category, lessons |-> body.lessons])
            /\ disk' = Serialize(courses', progress, certificates)
            /\ resp' = Response(201, Num(0), FALSE, CourseUUID)
            /\ UNCHANGED <<progress, certificates, now, lastLen, submitted, scope>>

(* ---------------------- PATCH /api/courses/:id -------------------------- *)
\* Object.assign(course, update): every field present in update overwrites
ObjectAssign(course, update) ==
    [course EXCEPT
        !.title = IF update.title = NoTitleField THEN @ ELSE update.title,
        !.lessons = IF update.lessons = NoLessonsField THEN @ ELSE update.lessons,
        !.id = IF update.id = Absent THEN @ ELSE update.id]

UpdateCourse(role, id, update) ==
    /\ req' = Request("updateCourse", role, id, NoUser)
    /\ IF ~requireAdmin(role)
       THEN /\ resp' = ErrorResponse(403)
            /\ UNCHANGED <<courses, progress, certificates, disk, now, lastLen, submitted, scope>>
       ELSE IF update.malformed
       THEN /\ resp' = ErrorResponse(400)
            /\ UNCHANGED <<courses, progress, certificates, disk, now, lastLen, submitted, scope>>
       ELSE IF FindCourse(id) = 0
       THEN /\ resp' = ErrorResponse(404)
            /\ UNCHANGED <<courses, progress, certificates, disk, now, lastLen, submitted, scope>>
       ELSE /\ courses' = [courses EXCEPT ![FindCourse(id)] = ObjectAssign(@, update)]
            /\ disk' = Serialize(courses', progress, certificates)
            /\ resp' = Response(200, Num(0), FALSE, courses'[FindCourse(id)].id)
            /\ UNCHANGED <<progress, certificates, now, lastLen, submitted, scope>>

(* ------- PATCH /api/courses/:courseId/lessons/:lessonId/progress -------- *)
NewRecord(userId, courseId) ==
    [userId |-> userId, courseId |-> courseId, completedLessons |-> <<>>,
     progress |-> Num(0), completed |-> FALSE, certificateId |-> Absent]

\* lookup-or-create of the (userId, courseId) record
WithRecord(userId, courseId) ==
    IF FindRecord(userId, courseId) = 0
    THEN Append(progress, NewRecord(userId, courseId))
    ELSE progress

RecordIndex(userId, courseId) ==
    IF FindRecord(userId, courseId) = 0 THEN Len(progress) + 1 ELSE FindRecord(userId, courseId)

\* a push without the includes guard
PushLessonAlways(completedLessons, lessonId) == Append(completedLessons, lessonId)

\* completedLessons.includes(lessonId) guard and push
PushLesson(completedLessons, lessonId) ==
    IF lessonId \in SeqSet(completedLessons) THEN completedLessons
    ELSE Append(completedLessons, lessonId)

\* the history variable lastLen follows the progress array: one entry per
\* record, the length of the lesson list at the record's last 200 response
GhostFor(userId, courseId) ==
    IF FindRecord(userId, courseId) = 0 THEN Append(lastLen, Absent) ELSE lastLen

\* the history variable submitted follows the progress array in the same way
SubmittedFor(userId, courseId, lessonId) ==
    LET s == IF FindRecord(userId, courseId) = 0 THEN Append(submitted, {}) ELSE submitted
    IN  [s EXCEPT ![RecordIndex(userId, courseId)] = @ \cup {lessonId}]

RecordLessonCompletion(courseId, lessonId, body) ==
    /\ req' = [Request("recordLessonCompletion", "", courseId, body.userId)
                    EXCEPT !.lessonId = lessonId]
    /\ IF body.malformed \/ body.userId = NoUser
       THEN /\ resp' = ErrorResponse(400)
            /\ UNCHANGED <<courses, progress, certificates, disk, now, lastLen, submitted, scope>>
       ELSE IF FindCourse(courseId) = 0
       THEN /\ resp' = ErrorResponse(404)
            /\ UNCHANGED <<courses, progress, certificates, disk, now, lastLen, submitted, scope>>
       ELSE LET course == courses[FindCourse(courseId)]
                userId == body.userId
                i == RecordIndex(userId, courseId)
                pushed == [WithRecord(userId, courseId) EXCEPT
                              ![i].completedLessons = PushLesson(@, lessonId)]
                pct == MathRound(Len(pushed[i].completedLessons), Len(course.lessons.v))
            IN  /\ FindRecord(userId, courseId) # 0 \/ Len(progress) < Scope.maxRecords
                /\ IF course.lessons.k = "null"
                   THEN \* course.lessons.length throws: caught, answered 400, no saveDb
                        /\ progress' = pushed
                        /\ lastLen' = GhostFor(userId, courseId)
                        /\ submitted' = SubmittedFor(userId, courseId, lessonId)
                        /\ resp' = ErrorResponse(400)
                        /\ UNCHANGED <<courses, certificates, disk, now, scope>>
                   ELSE /\ progress' = [pushed EXCEPT
                                ![i].progress = pct,
                                ![i].completed = IF pct = Num(100) THEN TRUE ELSE @]
                        /\ lastLen' = [GhostFor(userId, courseId) EXCEPT ![i] = Len(course.lessons.v)]
                        /\ submitted' = SubmittedFor(userId, courseId, lessonId)
                        /\ disk' = Serialize(courses, progress', certificates)
                        /\ resp' = Response(200, JsonNumber(pct), progress'[i].completed, Absent)
                        /\ UNCHANGED <<courses, certificates, now, scope>>

(* ----------------- POST /api/courses/:id/certificates ------------------- *)
\* a certificate store that keeps one certificate per (userId, courseId)
PushCertificateUpsert(certs, cert) ==
    IF \E i \in 1..Len(certs) : certs[i].userId = cert.userId /\ certs[i].courseId = cert.courseId
    THEN [i \in 1..Len(certs) |->
            IF certs[i].userId = cert.userId /\ certs[i].courseId = cert.courseId
            THEN cert ELSE certs[i]]
    ELSE Append(certs, cert)

\* db.certificates.push(cert)
PushCertificate(certs, cert) == Append(certs, cert)

IssueCertificate(courseId, body) ==
    /\ req' = Request("issueCertificate", "", courseId, body.userId)
    /\ IF body.malformed \/ body.userId = NoUser
       THEN /\ resp' = ErrorResponse(400)
            /\ UNCHANGED <<courses, progress, certificates, disk, now, lastLen, submitted, scope>>
       ELSE IF FindCourse(courseId) = 0
       THEN /\ resp' = ErrorResponse(404)
            /\ UNCHANGED <<courses, progress, certificates, disk, now, lastLen, submitted, scope>>
       ELSE LET course == courses[FindCourse(courseId)]
                userId == body.userId
                certId == CertUUID
                r == FindRecord(userId, courseId)
            IN  /\ Len(certificates) < Scope.maxCerts
                /\ now' = now + 1
                /\ certificates' = PushCertificate(certificates,
                      [id |-> certId, userId |-> userId, courseId |-> courseId,
                       courseName |-> course.title, completedAt |-> now', score |-> body.score])
                /\ progress' = IF r = 0 THEN progress
                               ELSE [progress EXCEPT ![r].certificateId = certId]
                /\ disk' = Serialize(courses, progress', certificates')
                /\ resp' = Response(201, JsonNull, FALSE, certId)
                /\ UNCHANGED <<courses, lastLen, submitted, scope>>

\* requests of clients other than the course provider
Next ==
    \/ \E role \in Roles, body \in Scope.creates :
           CreateCourse(role, body) /\ UNCHANGED <<clientCourses, calls>>
    \/ \E role \in Roles, id \in ClientIds,
          update \in Scope.updates \cup IdUpdates(Scope.newIds \cap ClientIds) :
           UpdateCourse(role, id, update) /\ UNCHANGED <<clientCourses, calls>>
    \/ \E courseId \in ClientIds, lessonId \in Scope.lessonIds,
          body \in ProgressBodies(Scope.users) :
           RecordLessonCompletion(courseId, lessonId, body) /\ UNCHANGED <<clientCourses, calls>>
    \/ \E courseId \in ClientIds, body \in CertificateBodies(Scope.users) :
           IssueCertificate(courseId, body) /\ UNCHANGED <<clientCourses, calls>>

InitCatalog ==
    /\ courses = <<>>
    /\ progress = <<>>
    /\ certificates = <<>>
    /\ disk = Serialize(<<>>, <<>>, <<>>)
    /\ now = 0
    /\ req = Request("none", "", Absent, NoUser)
    /\ resp = ErrorResponse(0)
    /\ lastLen = <<>>
    /\ submitted = <<>>
    /\ clientCourses = <<>>
    /\ calls = <<>>
    /\ scope = "catalog"

InitCert ==
    /\ courses = <<>>
    /\ progress = <<>>
    /\ certificates = <<>>
    /\ disk = Serialize(<<>>, <<>>, <<>>)
    /\ now = 0
    /\ req = Request("none", "", Absent, NoUser)
    /\ resp = ErrorResponse(0)
    /\ lastLen = <<>>
    /\ submitted = <<>>
    /\ clientCourses = <<>>
    /\ calls = <<>>
    /\ scope = "certificates"

(* ---------------------------- CourseProvider --------------------------- *)
\* the provider sends every request as user "1"
ClientUser == "1"

\* load(): the courses of GET /api/courses merged with the records of
\* GET /api/progress/1; a lessons value that is no array makes map throw and
\* the catch leaves the state empty
Load(cs, ps) ==
    IF \E i \in 1..Len(cs) : cs[i].lessons.k # "array" THEN <<>>
    ELSE [i \in 1..Len(cs) |->
            LET mine == {j \in 1..Len(ps) : ps[j].userId = ClientUser /\ ps[j].courseId = cs[i].id}
                found == mine # {}
                record == ps[CHOOSE j \in mine : \A h \in mine : j <= h]
            IN  [id |-> cs[i].id,
                 lessons |-> [l \in 1..Len(cs[i].lessons.v) |->
                                [id |-> cs[i].lessons.v[l],
                                 completed |-> found /\ cs[i].lessons.v[l] \in SeqSet(record.completedLessons)]],
                 progress |-> IF found THEN JsonNumber(record.progress) ELSE Num(0),
                 completed |-> found /\ record.completed]]

\* the updater passed to setCourses once a response has arrived
SetCourses(prev, courseId, lessonId, data) ==
    [i \in 1..Len(prev) |->
        IF prev[i].id = courseId
        THEN [prev[i] EXCEPT
                !.lessons = [l \in 1..Len(@) |->
                                IF @[l].id = lessonId THEN [@[l] EXCEPT !.completed = TRUE] ELSE @[l]],
                !.progress = data.progress,
                !.completed = data.completed]
        ELSE prev[i]]

\* res.ok
Ok(status) == status >= 200 /\ status <= 299

Call(courseId, lessonId) ==
    [courseId |-> courseId, lessonId |-> lessonId, at |-> "request", res |-> ErrorResponse(0)]

\* updateLessonProgress up to its await: the PATCH request leaves
UpdateLessonProgress(courseId, lessonId) ==
    /\ Len(calls) < ClientMaxCalls
    /\ calls' = Append(calls, Call(courseId, lessonId))
    /\ UNCHANGED <<courses, progress, certificates, disk, now, req, resp, lastLen, submitted,
                   scope, clientCourses>>

\* the server handles one of the requests under way, in any order, and its
\* response leaves
HandleCall(c) ==
    /\ calls[c].at = "request"
    /\ RecordLessonCompletion(calls[c].courseId, calls[c].lessonId, UserBody(ClientUser, Absent))
    /\ calls' = [calls EXCEPT ![c].at = "response", ![c].res = resp']
    /\ UNCHANGED clientCourses

\* a response arrives, in any order, and updateLessonProgress runs from its
\* await to its end
ResumeCall(c) ==
    /\ calls[c].at = "response"
    /\ calls' = [calls EXCEPT ![c].at = "resolved"]
    /\ clientCourses' =
          IF ~Ok(calls[c].res.status) THEN clientCourses
          ELSE SetCourses(clientCourses, calls[c].courseId, calls[c].lessonId, calls[c].res)
    /\ UNCHANGED <<courses, progress, certificates, disk, now, req, resp, lastLen, submitted, scope>>

\* data.json holds one course of two lessons when the server starts, and the
\* provider has loaded it
StoredCourses ==
    <<[id |-> 1, title |-> "t1", description |-> "d", category |-> "c",
       lessons |-> Arr(<<"L1", "L2">>)]>>

InitClient ==
    /\ courses = StoredCourses
    /\ progress = <<>>
    /\ certificates = <<>>
    /\ disk = Serialize(StoredCourses, <<>>, <<>>)
    /\ now = 0
    /\ req = Request("none", "", Absent, NoUser)
    /\ resp = ErrorResponse(0)
    /\ lastLen = <<>>
    /\ submitted = <<>>
    /\ scope = "client"
    /\ clientCourses = Load(StoredCourses, <<>>)
    /\ calls = <<>>

NextClient ==
    \/ \E i \in 1..Len(clientCourses), lessonId \in Scope.lessonIds :
           UpdateLessonProgress(clientCourses[i].id, lessonId)
    \/ \E c \in 1..Len(calls) : HandleCall(c)
    \/ \E c \in 1..Len(calls) : ResumeCall(c)

Spec == Init /\ [][Next]_vars
SpecClient == InitClient /\ [][NextClient]_vars
SpecCatalog == InitCatalog /\ [][Next]_vars
SpecCert == InitCert /\ [][Next]_vars

(* ======================================================================= *)
(* Claims                                                                  *)
(* ======================================================================= *)
Records == 1..Len(progress)
IsNum(x) == x.k = "num"
NoCourseHas(id) == \A i \in 1..Len(courses) : courses[i].id # id
Passed(i) == SeqSet(progress[i].completedLessons)

\* C1: for a course with at least one lesson, the percentage of a (user,
\* course) record is 100 iff every lesson identifier of the course's lesson
\* list has been passed to recordLessonCompletion for that pair.  (The
\* identifiers passed in requests that got past the course lookup are exactly
\* the record's completedLessons.)
C1_CompletionEquivalence ==
    \A i \in Records :
        LET c == FindCourse(progress[i].courseId) IN
        (c # 0 /\ courses[c].lessons.k = "array" /\ Len(courses[c].lessons.v) >= 1)
        => (progress[i].progress = Num(100)
            <=> SeqSet(courses[c].lessons.v) \subseteq Passed(i))

\* C2: in every reachable state every progress record has completed = true
\* iff its percentage is 100.
C2_CompletedIffHundred ==
    \A i \in Records : progress[i].completed <=> progress[i].progress = Num(100)

\* C3: the progress collection holds at most one record for each
\* (userId, courseId) pair.
C3_UniqueRecords ==
    \A i, j \in Records :
        (progress[i].userId = progress[j].userId /\ progress[i].courseId = progress[j].courseId)
        => i = j

\* C3 witness: two records are stored and the last request was answered from
\* the older one, which the lookup found.
C3_Witness ==
    /\ Len(progress) = 2
    /\ req.op = "recordLessonCompletion" /\ resp.status = 200
    /\ progress[1].userId = req.userId /\ progress[1].courseId = req.courseId
    /\ Len(progress[1].completedLessons) = 1
    /\ Len(certificates) >= 1

\* the step is a 200 answer of recordLessonCompletion for a pair whose record
\* has answered 200 before
LaterCompletion(r) ==
    /\ req'.op = "recordLessonCompletion" /\ resp'.status = 200
    /\ r \in Records
    /\ progress[r].userId = req'.userId /\ progress[r].courseId = req'.courseId
    /\ lastLen[r] # Absent

\* C4 as stated: the percentage returned for a pair never decreases from one
\* successful request with a new lesson identifier to the next, whatever
\* requests are processed in between.
C4_MonotoneAlways ==
    [][\A r \in Records :
         (/\ LaterCompletion(r)
          /\ Len(progress'[r].completedLessons) > Len(progress[r].completedLessons)
          /\ IsNum(progress[r].progress) /\ IsNum(resp'.progress))
         => resp'.progress.v >= progress[r].progress.v]_vars

\* C4 amended: the percentage returned for a pair never decreases from one
\* successful request to the next, provided the lesson list the later request
\* computes from is not empty and no longer than the one the earlier request
\* computed from.
C4_MonotoneWhileNotGrown ==
    [][\A r \in Records :
         (/\ LaterCompletion(r)
          /\ lastLen[r] >= 1 /\ lastLen'[r] >= 1 /\ lastLen'[r] <= lastLen[r])
         => (/\ IsNum(progress[r].progress) /\ IsNum(resp'.progress)
             /\ resp'.progress.v >= progress[r].progress.v
             /\ resp'.progress = progress'[r].progress)]_vars

\* C4 witness: a second lesson completed on an unchanged two-lesson list has
\* raised the percentage from 50 to 100.
C4_Witness ==
    /\ req.op = "recordLessonCompletion" /\ resp.status = 200
    /\ Len(progress) = 1 /\ Len(progress[1].completedLessons) = 2
    /\ lastLen[1] = 2 /\ resp.progress = Num(100)

\* C5: no two courses in the catalog share an identifier.
C5_UniqueCourseIds ==
    \A i, j \in 1..Len(courses) : courses[i].id = courses[j].id => i = j

\* C6: whenever a handler has finished, the in-memory store is the document
\* saveDb wrote last.
C6_PersistAfterMutate == disk = Serialize(courses, progress, certificates)

\* C7: createCourse or updateCourse without the exact x-role admin header is
\* answered 403 and leaves courses, progress and certificates (and the file)
\* unchanged.
C7_ForbiddenChangesNothing ==
    [][(req'.op \in {"createCourse", "updateCourse"} /\ req'.role # "admin")
       => (resp'.status = 403 /\ UNCHANGED <<courses, progress, certificates, disk>>)]_vars

\* C7 witness: an updateCourse with another role in the header, naming an existing course was refused
\* with courses, a progress record and a certificate in the store.
C7_Witness ==
    /\ req.op = "updateCourse" /\ req.role = "user" /\ resp.status = 403
    /\ ~NoCourseHas(req.courseId)
    /\ Len(courses) = 2 /\ Len(progress) >= 1 /\ Len(certificates) >= 1

\* C8 as stated: recordLessonCompletion naming a courseId no course has is
\* answered 404 and leaves the store unchanged.
C8_UnknownCourse404 ==
    [][(req'.op = "recordLessonCompletion" /\ NoCourseHas(req'.courseId))
       => (resp'.status = 404 /\ UNCHANGED <<courses, progress, certificates, disk>>)]_vars

\* C8 amended: recordLessonCompletion naming a courseId no course has leaves
\* the store unchanged and is answered 404 when its body is JSON with a
\* userId, and 400 when the userId is missing or the body is not JSON.
C8_UnknownCourse404WithUser ==
    [][(req'.op = "recordLessonCompletion" /\ NoCourseHas(req'.courseId))
       => (/\ resp'.status = (IF req'.userId = NoUser THEN 400 ELSE 404)
           /\ UNCHANGED <<courses, progress, certificates, disk>>)]_vars

\* C8 witness: a request with a userId for an identifier no course has (any
\* more) was answered 404 while a course and a progress record exist.
C8_Witness ==
    /\ req.op = "recordLessonCompletion" /\ req.userId # NoUser
    /\ NoCourseHas(req.courseId) /\ resp.status = 404
    /\ Len(courses) >= 1 /\ Len(progress) >= 1

\* the step is a 201 answer of issueCertificate
Issued == req'.op = "issueCertificate" /\ resp'.status = 201

\* C9: for an existing course and a userId, issueCertificate succeeds whatever
\* the record's percentage; it appends exactly one certificate, whose
\* identifier no earlier certificate has and which carries the current title
\* of the course the request names; the record of (userId, courseId), if
\* there is one, then references the new certificate; every other progress
\* record and every course is left as it was.
C9_IssueCertificate ==
    [][/\ (req'.op = "issueCertificate" /\ req'.userId # NoUser /\ ~NoCourseHas(req'.courseId))
          => resp'.status = 201
       /\ Issued =>
          LET n == Len(certificates)
              new == certificates'[n + 1]
          IN  /\ Len(certificates') = n + 1
              /\ \A i \in 1..n : certificates'[i] = certificates[i] /\ certificates[i].id # new.id
              /\ new.id = resp'.id
              /\ new.userId = req'.userId /\ new.courseId = req'.courseId
              /\ ~NoCourseHas(req'.courseId)
              /\ new.courseName = courses[FindCourse(req'.courseId)].title
              /\ Len(progress') = Len(progress)
              /\ \A i \in Records :
                    progress'[i] =
                        IF progress[i].userId = req'.userId /\ progress[i].courseId = req'.courseId
                        THEN [progress[i] EXCEPT !.certificateId = new.id]
                        ELSE progress[i]
              /\ courses' = courses]_vars

\* C9 witness: a second certificate was issued for a pair whose record is
\* below 100 percent and now references it, after the course's title was
\* changed, while another record references no certificate.
C9_Witness ==
    /\ req.op = "issueCertificate" /\ resp.status = 201
    /\ Len(certificates) = 2 /\ Len(progress) = 2
    /\ certificates[1].userId = req.userId /\ certificates[1].courseName = "t1"
    /\ certificates[2].courseName = "t2"
    /\ \E i, j \in Records :
          /\ progress[i].userId = req.userId /\ progress[i].courseId = req.courseId
          /\ progress[i].certificateId = certificates[2].id
          /\ progress[i].progress = Num(50)
          /\ progress[j].certificateId = Absent

\* C10: a certificate, once in the collection, stays there with the same id,
\* userId, courseId, courseName, completedAt and score.
C10_CertificatesImmutable ==
    [][/\ Len(certificates') >= Len(certificates)
       /\ \A i \in 1..Len(certificates) : certificates'[i] = certificates[i]]_vars

\* C10 witness: two certificates of the same user and course, the first one
\* still carrying the title the course had before it was renamed, and a
\* request handled after the second was issued.
C10_Witness ==
    /\ Len(certificates) = 2
    /\ certificates[1].userId = certificates[2].userId
    /\ certificates[1].courseId = certificates[2].courseId
    /\ certificates[1].courseName = "t1" /\ certificates[2].courseName = "t2"
    /\ certificates[1].completedAt < certificates[2].completedAt
    /\ req.op = "updateCourse" /\ resp.status = 200

\* C11: a recordLessonCompletion that repeats the request handled just before
\* it (same courseId, lessonId and userId) is answered as that request was and
\* leaves every progress record, its list of completed lessons included, as
\* the first call left it; no record ever lists a lesson identifier twice.
C11_Idempotent ==
    /\ [](\A i \in Records :
            Cardinality(Passed(i)) = Len(progress[i].completedLessons))
    /\ [][(req.op = "recordLessonCompletion" /\ req' = req)
          => (resp' = resp /\ progress' = progress)]_vars

\* C11 witness: the lesson the last request named is in the record of its
\* pair, along with another one, and the request was answered 67 percent: the
\* state a repetition of the request starts from and ends in.
C11_Witness ==
    /\ req.op = "recordLessonCompletion" /\ resp.status = 200
    /\ resp.progress = Num(67) /\ ~resp.completed
    /\ \E i \in Records :
          /\ progress[i].userId = req.userId /\ progress[i].courseId = req.courseId
          /\ req.lessonId \in Passed(i)
          /\ Len(progress[i].completedLessons) = 2

C13_ClientAgrees ==
    (Len(calls) >= 2 /\ \A c \in 1..Len(calls) : calls[c].at = "resolved")
    => \A i \in 1..Len(clientCourses) :
          LET r == FindRecord(ClientUser, clientCourses[i].id) IN
          r # 0 => /\ clientCourses[i].progress = JsonNumber(progress[r].progress)
                   /\ clientCourses[i].completed = progress[r].completed
====
